---------------------------- MODULE Spec2Model ----------------------------
(***************************************************************************)
(* Abejorro Digital Color: the palette quantizer (imageService), the hue   *)
(* arithmetic of the colour transforms (colorService) and the palette      *)
(* state of the App component (palette, selected colour, adjustments,      *)
(* shareable URL, uploads in flight).                                      *)
(*                                                                         *)
(* A string is a sequence of one-character strings: "#ff00aa" is           *)
(* <<"#","f","f","0","0","a","a">>.                                        *)
(***************************************************************************)
EXTENDS Integers, Sequences, FiniteSets, TLC

VARIABLES
    \* ---- App component state (App.tsx 120-130) and window.location ----
    mounted,        \* has the URL-sync effect (useEffect, []) run
    url,            \* the value of the colors query parameter, None if absent
    image,          \* data URL of the uploaded image: <<file index>>, <<>> if null
    palette,        \* string[]
    selectedColor,  \* string
    isProcessing,   \* boolean
    brightness,     \* number, slider -50..50
    saturation,     \* number in tenths (slider 0..2 step 0.1: 0..20)
    warmth,         \* number, slider -180..180
    uploads,        \* the handleImageUpload calls so far, in start order
    ops,            \* number of user operations so far (bounded by MaxOps)
    \* ---- one direct call of getDominantColors ----
    qPixels, qCount, qResult, qDone,
    \* ---- one evaluation of the hue arithmetic ----
    hBase, hWarmth, hOut, hDone,
    \* ---- one call of a colorService function on colour strings ----
    tFn, tArgs, tOut,
    \* ---- one run of the pixel sampler of extractPalette ----
    sW, sH, sOut

vars == <<mounted, url, image, palette, selectedColor, isProcessing, brightness,
          saturation, warmth, uploads, ops,
          qPixels, qCount, qResult, qDone, hBase, hWarmth, hOut, hDone,
          tFn, tArgs, tOut, sW, sH, sOut>>

appVars == <<mounted, url, image, palette, selectedColor, isProcessing,
             brightness, saturation, warmth, uploads, ops>>
quantVars == <<qPixels, qCount, qResult, qDone>>
hueVars == <<hBase, hWarmth, hOut, hDone>>
transformVars == <<tFn, tArgs, tOut>>
samplerVars == <<sW, sH, sOut>>

None == <<"none">>      \* null / undefined where a string or a list is expected
NoCall == "none"

(***************************************************************************)
(* Bounds of the model.                                                    *)
(***************************************************************************)
MaxPixels == 4      \* longest pixel sequence handed to getDominantColors
MaxCount == 6       \* count ranges over -MaxCount..MaxCount
MaxOps == 2         \* user operations per run of the App
MaxWarmth == 400    \* warmth offsets range over -MaxWarmth..MaxWarmth

(***************************************************************************)
(* Strings, numbers and their conversions.                                 *)
(***************************************************************************)
Min(a, b) == IF a <= b THEN a ELSE b
Max(a, b) == IF a >= b THEN a ELSE b

HexDigits == <<"0","1","2","3","4","5","6","7","8","9","a","b","c","d","e","f">>
UpperDigits == <<"0","1","2","3","4","5","6","7","8","9","A","B","C","D","E","F">>

\* Number.prototype.toString(radix) of an integer x >= 0, radix 10 or 16.
RECURSIVE NumToString(_, _)
NumToString(x, radix) ==
    IF x < radix THEN <<HexDigits[x + 1]>>
    ELSE NumToString(x \div radix, radix) \o <<HexDigits[(x % radix) + 1]>>

\* String.prototype.toLowerCase on one character of a colour string.
LowerChar(ch) ==
    IF \E i \in 11..16 : UpperDigits[i] = ch
    THEN HexDigits[CHOOSE i \in 11..16 : UpperDigits[i] = ch]
    ELSE ch

ToLowerCase(s) == [i \in 1..Len(s) |-> LowerChar(s[i])]

IsHexChar(ch) == \E i \in 1..16 : HexDigits[i] = ch
HexVal(ch) == (CHOOSE i \in 1..16 : HexDigits[i] = ch) - 1

\* Number("<decimal digits>") as used on the parts of a bucket key.
RECURSIVE ParseDec(_)
ParseDec(s) ==
    IF Len(s) = 0 THEN 0
    ELSE 10 * ParseDec(SubSeq(s, 1, Len(s) - 1)) + HexVal(s[Len(s)])

\* String.prototype.split(sep) for a one-character separator: "" splits
\* into one empty segment.
RECURSIVE Split(_, _)
Split(s, sep) ==
    IF \A i \in 1..Len(s) : s[i] # sep THEN <<s>>
    ELSE LET k == CHOOSE i \in 1..Len(s) :
                      s[i] = sep /\ \A j \in 1..(i - 1) : s[j] # sep
         IN <<SubSeq(s, 1, k - 1)>> \o Split(SubSeq(s, k + 1, Len(s)), sep)

\* Array.prototype.join(sep) on an array of strings.
RECURSIVE Join(_, _)
Join(parts, sep) ==
    IF Len(parts) = 0 THEN <<>>
    ELSE IF Len(parts) = 1 THEN parts[1]
    ELSE parts[1] \o <<sep>> \o Join(Tail(parts), sep)

\* Array.prototype.slice(0, end): a negative end counts from the far end.
JsSliceOneMore(s, end) ==
    SubSeq(s, 1, IF end < 0 THEN Max(Len(s) + end, 0) ELSE Min(end + 1, Len(s)))
JsSlice(s, end) ==
    SubSeq(s, 1, IF end < 0 THEN Max(Len(s) + end, 0) ELSE Min(end, Len(s)))

(***************************************************************************)
(* imageService: getDominantColors and rgbToHex.                           *)
(***************************************************************************)
factor == 32

\* Math.round(c / factor) * factor for an 8-bit channel c: Math.round rounds
\* halves up, and c / 32 is exact, so it is floor((c + 16) / 32) * 32.
RoundChannel(c) == ((2 * c + factor) \div (2 * factor)) * factor

\* `${r},${g},${b}` of the rounded channels of pixel p = <<r, g, b>>.
BucketKey(p) ==
    Join(<<NumToString(RoundChannel(p[1]), 10),
           NumToString(RoundChannel(p[2]), 10),
           NumToString(RoundChannel(p[3]), 10)>>, ",")

\* The buckets object after pixels.forEach: its entries <<key, count>> in
\* insertion order (no key is an array index, so Object.entries keeps it).
RECURSIVE CountBuckets(_)
CountBuckets(pixels) ==
    IF Len(pixels) = 0 THEN <<>>
    ELSE LET before == CountBuckets(SubSeq(pixels, 1, Len(pixels) - 1))
             key == BucketKey(pixels[Len(pixels)])
         IN IF \E i \in 1..Len(before) : before[i][1] = key
            THEN [i \in 1..Len(before) |->
                     IF before[i][1] = key
                     THEN <<key, before[i][2] + 1>> ELSE before[i]]
            ELSE Append(before, <<key, 1>>)

\* Array.prototype.sort((a, b) => b[1] - a[1]): stable, count descending.
RECURSIVE InsertByCount(_, _)
InsertByCount(sorted, e) ==
    IF Len(sorted) = 0 THEN <<e>>
    ELSE IF sorted[Len(sorted)][2] >= e[2] THEN Append(sorted, e)
    ELSE Append(InsertByCount(SubSeq(sorted, 1, Len(sorted) - 1), e),
                sorted[Len(sorted)])

RECURSIVE StableSortDesc(_)
StableSortDesc(entries) ==
    IF Len(entries) = 0 THEN <<>>
    ELSE InsertByCount(StableSortDesc(SubSeq(entries, 1, Len(entries) - 1)),
                       entries[Len(entries)])

SortUnsorted(entries) == entries
SortTiesLastSeenFirst(entries) ==
    StableSortDesc([i \in 1..Len(entries) |-> entries[Len(entries) + 1 - i]])
SortByCount(entries) == StableSortDesc(entries)

\* x.toString(16), left-padded to two digits when it has one.
HexByte(x) ==
    LET hex == NumToString(x, 16)
    IN IF Len(hex) = 1 THEN <<"0">> \o hex ELSE hex

rgbToHex(r, g, b) == <<"#">> \o HexByte(r) \o HexByte(g) \o HexByte(b)

\* key.split(',').map(Number) and rgbToHex of the three numbers.
KeyToHex(key) ==
    LET parts == Split(key, ",")
    IN rgbToHex(ParseDec(parts[1]), ParseDec(parts[2]), ParseDec(parts[3]))

getDominantColors(pixels, count) ==
    LET top == JsSlice(SortByCount(CountBuckets(pixels)), count)
    IN [i \in 1..Len(top) |-> KeyToHex(top[i][1])]

(***************************************************************************)
(* A direct call getDominantColors(qPixels, qCount).                       *)
(***************************************************************************)
\* Pixels the calls are made with: two of them share a bucket, three have a
\* channel in 240..255.
PixelSet ==
    { <<20, 20, 20>>, <<40, 40, 40>>, <<250, 10, 10>>, <<0, 0, 0>>,
      <<255, 255, 255>>, <<15, 16, 240>> }

RECURSIVE SeqsUpTo(_, _)
SeqsUpTo(S, n) ==
    IF n = 0 THEN { <<>> }
    ELSE LET shorter == SeqsUpTo(S, n - 1)
         IN shorter \cup { Append(s, x) : s \in { t \in shorter : Len(t) = n - 1 },
                                          x \in S }

CallGetDominantColors ==
    /\ ~qDone
    /\ qResult' = getDominantColors(qPixels, qCount)
    /\ qDone' = TRUE
    /\ UNCHANGED <<qPixels, qCount>>

(***************************************************************************)
(* What the quantizer's claims are stated with: the buckets of a pixel     *)
(* sequence as a set, and each bucket's population, counted directly.      *)
(***************************************************************************)
BucketOf(p) == <<RoundChannel(p[1]), RoundChannel(p[2]), RoundChannel(p[3])>>
BucketSet(pixels) == { BucketOf(pixels[i]) : i \in 1..Len(pixels) }
Population(pixels, k) == Cardinality({ i \in 1..Len(pixels) : BucketOf(pixels[i]) = k })
BucketHex(k) == rgbToHex(k[1], k[2], k[3])
BucketsShown(pixels, hex) == { k \in BucketSet(pixels) : BucketHex(k) = hex }
IsHexColor(s) ==
    /\ Len(s) = 7
    /\ s[1] = "#"
    /\ \A i \in 2..7 : IsHexChar(s[i])

\* C2: for count >= 0 the result of getDominantColors has exactly
\* min(count, number of distinct buckets) colours, never more than count, and
\* none for an empty pixel sequence.
C2_LengthIsMin ==
    (qDone /\ qCount >= 0) =>
        /\ Len(qResult) = Min(qCount, Cardinality(BucketSet(qPixels)))
        /\ Len(qResult) <= qCount
        /\ (qPixels = <<>> => qResult = <<>>)

C2_Witness ==
    /\ qDone
    /\ qCount >= 1
    /\ Cardinality(BucketSet(qPixels)) > qCount
    /\ Len(qResult) = qCount

\* C3: every colour returned by getDominantColors is '#' followed by exactly
\* six hex digits, also when a channel lies in 240..255.
C3_SixHexDigits ==
    qDone => \A i \in 1..Len(qResult) : IsHexColor(qResult[i])

\* C4: for every count <= 0 getDominantColors returns the empty palette.
C4_NonPositiveCountEmpty ==
    (qDone /\ qCount <= 0) => qResult = <<>>

\* C5: the result is ordered by bucket population, non-increasing, every
\* colour of it is the colour of a bucket of the pixels, and no bucket left
\* out is more populated than one that is in it.
C5_OrderedByCount ==
    qDone =>
        /\ \A i \in 1..Len(qResult) : BucketsShown(qPixels, qResult[i]) # {}
        /\ \A i, j \in 1..Len(qResult) :
              i < j =>
                \A ki \in BucketsShown(qPixels, qResult[i]),
                   kj \in BucketsShown(qPixels, qResult[j]) :
                     Population(qPixels, ki) >= Population(qPixels, kj)
        /\ \A k \in BucketSet(qPixels) :
              (\A i \in 1..Len(qResult) : BucketHex(k) # qResult[i]) =>
                \A i \in 1..Len(qResult) :
                   \A ki \in BucketsShown(qPixels, qResult[i]) :
                      Population(qPixels, k) <= Population(qPixels, ki)

C5_Witness ==
    /\ qDone
    /\ Len(qResult) >= 2
    /\ Cardinality(BucketSet(qPixels)) > Len(qResult)
    /\ \E k1, k2 \in BucketSet(qPixels) :
          Population(qPixels, k1) > Population(qPixels, k2)
    /\ CountBuckets(qPixels)[1][2] < CountBuckets(qPixels)[2][2]

(***************************************************************************)
(* colorService: the hue arithmetic of adjustColor, getAnalogous,          *)
(* getTriads and getComplementary. The LCH hue d3 hands them lies in       *)
(* [0, 360) (or is NaN, read as 0 by `|| 0`); hues are whole degrees here. *)
(***************************************************************************)
\* The JavaScript % operator: the result takes the sign of the dividend.
JsRem(a, n) == IF a >= 0 THEN a % n ELSE -((-a) % n)

adjustHueNoOffset(h, w) == JsRem(h + w, 360)
adjustHue(h, w) == JsRem(h + w + 360, 360)
analogousHues(h) == <<JsRem(h + 30, 360), JsRem(h - 30 + 360, 360)>>
triadHues(h) == <<JsRem(h + 120, 360), JsRem(h + 240, 360)>>
complementaryHue(h) == JsRem(h + 180, 360)

Hues == 0..359
Warmths == (-MaxWarmth)..MaxWarmth

CallAdjustColor ==
    /\ hDone = NoCall
    /\ \E w \in Warmths :
          /\ hWarmth' = w
          /\ hOut' = <<adjustHue(hBase, w)>>
    /\ hDone' = "adjustColor"
    /\ UNCHANGED hBase

CallGetAnalogous ==
    /\ hDone = NoCall
    /\ hOut' = analogousHues(hBase)
    /\ hDone' = "getAnalogous"
    /\ UNCHANGED <<hBase, hWarmth>>

CallGetTriads ==
    /\ hDone = NoCall
    /\ hOut' = triadHues(hBase)
    /\ hDone' = "getTriads"
    /\ UNCHANGED <<hBase, hWarmth>>

CallGetComplementary ==
    /\ hDone = NoCall
    /\ hOut' = <<complementaryHue(hBase)>>
    /\ hDone' = "getComplementary"
    /\ UNCHANGED <<hBase, hWarmth>>

(***************************************************************************)
(* colorService.normalizeHex on the strings the App hands it: d3.color     *)
(* lower-cases the string and reads '#' followed by 3, 4, 6 or 8 hex       *)
(* digits (the alpha digit or byte is dropped by formatHex); any other     *)
(* '#...' string is no colour. formatHex writes each channel as two        *)
(* lower-case hex digits.                                                  *)
(***************************************************************************)
Black == <<"#","0","0","0","0","0","0">>

\* d3.color(s): the channels <<r, g, b>>, or None when s is no colour.
D3Color(s) ==
    LET f == ToLowerCase(s)
        n == Len(f) - 1
        d(i) == HexVal(f[i + 1])
    IN IF Len(f) = 0 \/ f[1] # "#" \/ \E i \in 2..Len(f) : ~IsHexChar(f[i])
       THEN None
       ELSE IF n = 6 \/ n = 8
       THEN <<16 * d(1) + d(2), 16 * d(3) + d(4), 16 * d(5) + d(6)>>
       ELSE IF n = 3 \/ n = 4
       THEN <<17 * d(1), 17 * d(2), 17 * d(3)>>
       ELSE None

formatHex(c) == <<"#">> \o HexByte(c[1]) \o HexByte(c[2]) \o HexByte(c[3])

normalizeHex(hex) ==
    LET color == D3Color(hex)
    IN IF color # None THEN formatHex(color) ELSE Black

(***************************************************************************)
(* colorService.checkContrast. d3.rgb gives the channels of a colour and   *)
(* NaN channels for a string that is no colour. Luminances are kept in     *)
(* millionths, the linearised channels in hundred-thousandths; the ratio   *)
(* is the exact fraction num/den of the two shifted luminances.            *)
(***************************************************************************)
NaN == -1000000     \* the number NaN: outside every range a channel takes

\* d3.rgb(s)
D3Rgb(s) ==
    LET c == D3Color(s)
    IN IF c = None THEN <<NaN, NaN, NaN>> ELSE c

\* v /= 255; v <= 0.03928 ? v / 12.92 : Math.pow((v + 0.055) / 1.055, 2.4)
\* for v = 0..255, times 10^5 and rounded.
Linear ==
    <<
             0,     30,     61,     91,    121,    152,    182,    212,    243,    273,    304,    335,    368,    402,    439,    478,
           518,    561,    605,    651,    700,    750,    802,    857,    913,    972,   1033,   1096,   1161,   1229,   1298,   1370,
          1444,   1521,   1600,   1681,   1764,   1850,   1938,   2029,   2122,   2217,   2315,   2416,   2519,   2624,   2732,   2843,
          2956,   3071,   3190,   3310,   3434,   3560,   3689,   3820,   3955,   4092,   4231,   4374,   4519,   4667,   4817,   4971,
          5127,   5286,   5448,   5613,   5781,   5951,   6125,   6301,   6480,   6663,   6848,   7036,   7227,   7421,   7619,   7819,
          8022,   8228,   8438,   8650,   8866,   9084,   9306,   9531,   9759,   9990,  10224,  10462,  10702,  10946,  11193,  11444,
         11697,  11954,  12214,  12477,  12744,  13014,  13287,  13563,  13843,  14126,  14413,  14703,  14996,  15293,  15593,  15896,
         16203,  16513,  16827,  17144,  17465,  17789,  18116,  18447,  18782,  19120,  19462,  19807,  20156,  20508,  20864,  21223,
         21586,  21953,  22323,  22697,  23074,  23455,  23840,  24228,  24620,  25016,  25415,  25818,  26225,  26636,  27050,  27468,
         27889,  28315,  28744,  29177,  29614,  30054,  30499,  30947,  31399,  31855,  32314,  32778,  33245,  33716,  34191,  34670,
         35153,  35640,  36131,  36625,  37124,  37626,  38133,  38643,  39157,  39676,  40198,  40724,  41254,  41789,  42327,  42869,
         43415,  43966,  44520,  45079,  45641,  46208,  46778,  47353,  47932,  48515,  49102,  49693,  50289,  50888,  51492,  52100,
         52712,  53328,  53948,  54572,  55201,  55834,  56471,  57112,  57758,  58408,  59062,  59720,  60383,  61050,  61721,  62396,
         63076,  63760,  64448,  65141,  65837,  66539,  67244,  67954,  68669,  69387,  70110,  70838,  71569,  72306,  73046,  73791,
         74540,  75294,  76052,  76815,  77582,  78354,  79130,  79910,  80695,  81485,  82279,  83077,  83880,  84687,  85499,  86316,
         87137,  87962,  88792,  89627,  90466,  91310,  92158,  93011,  93869,  94731,  95597,  96469,  97345,  98225,  99110, 100000 >>

\* getLuminance(c)
getLuminance(c) ==
    IF c[1] = NaN \/ c[2] = NaN \/ c[3] = NaN
    THEN NaN
    ELSE (2126 * Linear[c[1] + 1] + 7152 * Linear[c[2] + 1]
          + 722 * Linear[c[3] + 1]) \div 1000

\* (l1 + 0.05) / (l2 + 0.05), without putting the lighter colour on top.
contrastRatioUnordered(l1, l2) ==
    IF l1 = NaN \/ l2 = NaN
    THEN [nan |-> TRUE, num |-> 0, den |-> 1]
    ELSE [nan |-> FALSE, num |-> l1 + 50000, den |-> l2 + 50000]

\* (Math.max(l1, l2) + 0.05) / (Math.min(l1, l2) + 0.05)
contrastRatio(l1, l2) ==
    IF l1 = NaN \/ l2 = NaN
    THEN [nan |-> TRUE, num |-> 0, den |-> 1]
    ELSE [nan |-> FALSE, num |-> Max(l1, l2) + 50000, den |-> Min(l1, l2) + 50000]

\* ratio >= tenths / 10; every comparison with NaN is false.
RatioAtLeast(ratio, tenths) ==
    ~ratio.nan /\ 10 * ratio.num >= tenths * ratio.den

\* Number.prototype.toFixed(2): the nearest hundredth (the larger of two
\* equally near), written with two decimals; "NaN" for NaN.
toFixed2(ratio) ==
    IF ratio.nan THEN <<"N","a","N">>
    ELSE LET n == (200 * ratio.num + ratio.den) \div (2 * ratio.den)
         IN NumToString(n \div 100, 10) \o <<".">>
            \o NumToString((n % 100) \div 10, 10) \o NumToString(n % 10, 10)

\* A JavaScript value with its typeof.
JsString(chars) == [type |-> "string", value |-> chars]

checkContrast(foreground, background) ==
    LET l1 == getLuminance(D3Rgb(foreground))
        l2 == getLuminance(D3Rgb(background))
        ratio == contrastRatio(l1, l2)
    IN [ ratio |-> JsString(toFixed2(ratio)),
         aa |-> RatioAtLeast(ratio, 45),
         aaa |-> RatioAtLeast(ratio, 70),
         aaLarge |-> RatioAtLeast(ratio, 30) ]

\* The colour strings the transform calls are tried on: palette colours of
\* the App, greys, primaries, short and upper-case forms, and strings that
\* are no colour.
White == <<"#","f","f","f","f","f","f">>
NotAColor == <<"n","o","p","e">>
ColorInputs ==
    { Black, White,
      <<"#","f","f","f">>,
      <<"#","F","2","7","D","2","6">>,
      <<"#","1","4","1","4","1","4">>,
      <<"#","3","a","6","e","a","5">>,
      <<"#","0","0","0","0","f","f">>,
      <<"#","f","f","0","0","0","0">>,
      <<"#","8","0","8","0","8","0">>,
      <<"#","8","b","8","b","8","b">>,
      <<"#","2","5","2","5","2","5">>,
      <<"#","a","e","a","e","a","e">>,
      <<"#","2","4","2","4","2","4">>,
      NotAColor,
      <<"#","1","0","0","0","0","0","0">>,
      <<>> }

CallCheckContrast ==
    /\ tFn = NoCall
    /\ \E fg \in ColorInputs, bg \in ColorInputs :
          /\ tArgs' = <<fg, bg>>
          /\ tOut' = checkContrast(fg, bg)
    /\ tFn' = "checkContrast"

(***************************************************************************)
(* The LCH transforms of colorService. d3's conversions between sRGB and   *)
(* CIE LCH are tables of d3-color's values on the colours the calls below  *)
(* meet: L, C and H are in thousandths, NaN where d3 gives NaN (hue and    *)
(* chroma of black and white, hue of a grey, every channel of a string     *)
(* that is no colour). The arithmetic between the conversions is the       *)
(* code's.                                                                 *)
(***************************************************************************)
\* <<r, g, b, l, c, h>>: d3.lch of the colour with channels r, g, b.
RgbLchTable ==
    { <<0, 0, 0, 0, NaN, NaN>>,
      <<0, 0, 255, 29568, 131207, 301369>>,
      <<0, 89, 0, 32172, 52590, 134391>>,
      <<0, 163, 251, 63428, 55791, 257967>>,
      <<0, 182, 255, 69181, 51648, 247419>>,
      <<20, 20, 20, 6319, 0, NaN>>,
      <<36, 36, 36, 14198, 0, NaN>>,
      <<37, 37, 37, 14680, 0, NaN>>,
      <<58, 110, 165, 44802, 35645, 263283>>,
      <<60, 110, 165, 44891, 35450, 263936>>,
      <<107, 51, 136, 32117, 52543, 314189>>,
      <<125, 103, 45, 44865, 35549, 83878>>,
      <<128, 128, 128, 53585, 0, NaN>>,
      <<139, 139, 139, 57864, 0, NaN>>,
      <<174, 174, 174, 71096, 0, NaN>>,
      <<192, 145, 50, 63524, 55982, 77983>>,
      <<219, 154, 81, 69059, 51623, 67453>>,
      <<242, 125, 38, 65417, 76618, 56518>>,
      <<255, 0, 0, 54292, 106839, 40853>>,
      <<255, 255, 255, 100000, NaN, NaN>> }

\* <<l, c, h, r, g, b>>: the channels formatHex writes for d3.lch(l, c, h),
\* rounded and clamped to 0..255.
LchRgbTable ==
    { <<0, 0, 0, 0, 0, 0>>,
      <<2527, 0, 0, 9, 9, 9>>,
      <<3791, 0, 0, 13, 13, 13>>,
      <<5055, 0, 0, 17, 17, 17>>,
      <<5679, 0, 0, 19, 19, 19>>,
      <<5872, 0, 0, 19, 19, 19>>,
      <<6319, 0, 0, 20, 20, 20>>,
      <<8518, 0, 0, 25, 25, 25>>,
      <<8808, 0, 0, 25, 25, 25>>,
      <<11358, 0, 0, 30, 30, 30>>,
      <<11744, 0, 0, 31, 31, 31>>,
      <<11827, 131207, 301369, 0, 0, 203>>,
      <<12868, 52590, 134391, 0, 44, 0>>,
      <<14198, 0, 0, 36, 36, 36>>,
      <<14680, 0, 0, 37, 37, 37>>,
      <<17740, 131207, 301369, 0, 0, 220>>,
      <<17920, 35645, 263283, 0, 48, 96>>,
      <<17946, 35549, 83878, 58, 41, 0>>,
      <<19303, 52590, 134391, 0, 58, 0>>,
      <<21434, 0, 0, 51, 51, 51>>,
      <<21716, 106839, 40853, 149, 0, 0>>,
      <<23145, 0, 0, 55, 55, 55>>,
      <<23654, 131207, 301369, 0, 0, 237>>,
      <<25371, 55791, 257967, 0, 69, 145>>,
      <<25737, 52590, 134391, 0, 73, 0>>,
      <<26166, 76618, 56518, 123, 20, 0>>,
      <<26881, 35645, 263283, 0, 67, 118>>,
      <<26919, 35549, 83878, 79, 61, 1>>,
      <<27672, 51648, 247419, 0, 76, 139>>,
      <<28438, 0, 0, 67, 67, 67>>,
      <<29568, 0, 0, 70, 70, 70>>,
      <<29568, 13120, 301369, 74, 66, 87>>,
      <<29568, 52482, 301369, 79, 55, 141>>,
      <<29568, 91844, 301369, 68, 38, 196>>,
      <<29568, 131207, 61369, 158, 0, 0>>,
      <<29568, 131207, 121369, 0, 89, 0>>,
      <<29568, 131207, 181369, 0, 97, 72>>,
      <<29568, 131207, 271369, 0, 84, 255>>,
      <<29568, 131207, 301369, 0, 0, 255>>,
      <<29568, 131207, 331369, 186, 0, 172>>,
      <<32151, 0, 0, 76, 76, 76>>,
      <<32172, 0, 0, 76, 76, 76>>,
      <<32172, 5259, 134391, 72, 77, 70>>,
      <<32172, 21036, 134391, 58, 82, 51>>,
      <<32172, 36813, 134391, 39, 86, 31>>,
      <<32172, 52590, 14391, 145, 22, 58>>,
      <<32172, 52590, 104391, 70, 81, 0>>,
      <<32172, 52590, 134391, 0, 89, 0>>,
      <<32172, 52590, 164391, 0, 93, 51>>,
      <<32172, 52590, 254391, 0, 85, 156>>,
      <<32172, 52590, 314391, 107, 51, 136>>,
      <<32575, 106839, 40853, 183, 0, 0>>,
      <<34718, 0, 0, 82, 82, 82>>,
      <<35841, 35645, 263283, 29, 88, 141>>,
      <<35892, 35549, 83878, 102, 81, 24>>,
      <<38056, 55791, 257967, 0, 98, 179>>,
      <<39250, 76618, 56518, 161, 57, 0>>,
      <<40000, 0, 0, 94, 94, 94>>,
      <<41508, 51648, 247419, 0, 110, 177>>,
      <<42657, 0, 0, 101, 101, 101>>,
      <<42868, 0, 0, 101, 101, 101>>,
      <<43433, 106839, 40853, 219, 0, 0>>,
      <<44802, 0, 0, 106, 106, 106>>,
      <<44802, 3564, 263283, 103, 106, 112>>,
      <<44802, 14258, 263283, 93, 107, 129>>,
      <<44802, 24951, 263283, 79, 109, 147>>,
      <<44802, 35645, 23283, 159, 82, 84>>,
      <<44802, 35645, 83283, 125, 103, 45>>,
      <<44802, 35645, 143283, 60, 118, 68>>,
      <<44802, 35645, 233283, 0, 117, 153>>,
      <<44802, 35645, 263283, 58, 110, 165>>,
      <<44802, 35645, 293283, 106, 99, 161>>,
      <<44865, 0, 0, 106, 106, 106>>,
      <<44865, 3554, 83878, 109, 106, 100>>,
      <<44865, 14219, 83878, 115, 105, 83>>,
      <<44865, 24884, 83878, 121, 104, 64>>,
      <<44865, 35549, 53878, 147, 92, 59>>,
      <<44865, 35549, 83878, 125, 103, 45>>,
      <<44865, 35549, 113878, 96, 112, 49>>,
      <<44865, 35549, 203878, 0, 121, 129>>,
      <<44865, 35549, 263878, 60, 110, 165>>,
      <<44865, 35549, 323878, 140, 88, 142>>,
      <<46291, 0, 0, 110, 110, 110>>,
      <<50000, 0, 0, 119, 119, 119>>,
      <<50742, 55791, 257967, 0, 130, 214>>,
      <<52333, 76618, 56518, 201, 91, 0>>,
      <<53585, 0, 0, 128, 128, 128>>,
      <<54292, 0, 0, 130, 130, 130>>,
      <<54292, 10683, 40853, 147, 125, 118>>,
      <<54292, 42735, 40853, 189, 106, 83>>,
      <<54292, 74787, 40853, 224, 78, 48>>,
      <<54292, 106839, 10853, 255, 0, 103>>,
      <<54292, 106839, 40853, 255, 0, 0>>,
      <<54292, 106839, 70853, 200, 103, 0>>,
      <<54292, 106839, 160853, 0, 163, 61>>,
      <<54292, 106839, 220853, 0, 163, 251>>,
      <<54292, 106839, 280853, 0, 127, 255>>,
      <<55344, 51648, 247419, 0, 145, 215>>,
      <<56319, 0, 0, 135, 135, 135>>,
      <<56876, 0, 0, 136, 136, 136>>,
      <<57864, 0, 0, 139, 139, 139>>,
      <<60000, 0, 0, 145, 145, 145>>,
      <<63428, 0, 0, 154, 154, 154>>,
      <<63428, 5579, 257967, 148, 154, 163>>,
      <<63428, 22316, 257967, 126, 157, 192>>,
      <<63428, 39053, 257967, 94, 160, 221>>,
      <<63428, 55791, 17967, 242, 109, 126>>,
      <<63428, 55791, 77967, 192, 145, 50>>,
      <<63428, 55791, 137967, 84, 172, 82>>,
      <<63428, 55791, 227967, 0, 173, 227>>,
      <<63428, 55791, 257967, 0, 163, 251>>,
      <<63428, 55791, 287967, 139, 146, 249>>,
      <<64198, 0, 0, 156, 156, 156>>,
      <<64680, 0, 0, 157, 157, 157>>,
      <<65417, 0, 0, 159, 159, 159>>,
      <<65417, 7661, 56518, 170, 156, 148>>,
      <<65417, 30647, 56518, 198, 147, 114>>,
      <<65417, 53632, 56518, 222, 137, 79>>,
      <<65417, 76618, 26518, 255, 93, 103>>,
      <<65417, 76618, 56518, 242, 125, 38>>,
      <<65417, 76618, 86518, 190, 154, 0>>,
      <<65417, 76618, 176518, 0, 190, 148>>,
      <<65417, 76618, 236518, 0, 182, 255>>,
      <<65417, 76618, 296518, 162, 140, 255>>,
      <<69181, 0, 0, 169, 169, 169>>,
      <<69181, 5164, 247419, 162, 170, 177>>,
      <<69181, 20659, 247419, 137, 174, 203>>,
      <<69181, 36153, 247419, 101, 178, 229>>,
      <<69181, 51648, 7419, 254, 128, 160>>,
      <<69181, 51648, 67419, 219, 154, 81>>,
      <<69181, 51648, 127419, 128, 184, 90>>,
      <<69181, 51648, 217419, 0, 190, 225>>,
      <<69181, 51648, 247419, 0, 182, 255>>,
      <<69181, 51648, 277419, 132, 168, 255>>,
      <<71096, 0, 0, 174, 174, 174>>,
      <<79568, 0, 0, 197, 197, 197>>,
      <<79568, 131207, 121369, 74, 227, 0>>,
      <<79568, 131207, 301369, 218, 151, 255>>,
      <<80000, 0, 0, 198, 198, 198>>,
      <<82172, 0, 0, 204, 204, 204>>,
      <<82172, 52590, 134391, 149, 222, 130>>,
      <<82172, 52590, 314391, 246, 180, 255>>,
      <<94802, 0, 0, 240, 240, 240>>,
      <<94802, 35645, 83283, 255, 236, 171>>,
      <<94802, 35645, 263283, 199, 244, 255>>,
      <<94865, 0, 0, 240, 240, 240>>,
      <<94865, 35549, 83878, 255, 236, 172>>,
      <<94865, 35549, 263878, 200, 244, 255>>,
      <<100000, 0, 0, 255, 255, 255>>,
      <<100000, 51648, 67419, 255, 240, 162>>,
      <<100000, 51648, 247419, 147, 255, 255>>,
      <<100000, 55791, 77967, 255, 245, 147>>,
      <<100000, 55791, 257967, 163, 255, 255>>,
      <<100000, 76618, 56518, 255, 221, 130>>,
      <<100000, 76618, 236518, 0, 255, 255>>,
      <<100000, 106839, 40853, 255, 178, 123>>,
      <<100000, 106839, 220853, 0, 255, 255>> }

Deg(d) == 1000 * d

\* x || 0
OrZero(x) == IF x = NaN THEN 0 ELSE x

\* d3.lch(hex): <<l, c, h>>. lch() never returns null.
D3Lch(hex) ==
    LET rgb == D3Rgb(hex)
    IN IF rgb[1] = NaN THEN <<NaN, NaN, NaN>>
       ELSE LET e == CHOOSE e \in RgbLchTable : <<e[1], e[2], e[3]>> = rgb
            IN <<e[4], e[5], e[6]>>

\* d3.lch(l, c, h).formatHex(): a NaN lightness makes every channel NaN,
\* written as 00; a NaN hue or chroma, or chroma 0, gives the grey of
\* lightness l.
D3LchHex(l, c, h) ==
    IF l = NaN THEN Black
    ELSE LET key == IF c = NaN \/ h = NaN \/ c = 0 THEN <<l, 0, 0>> ELSE <<l, c, h>>
             e == CHOOSE e \in LchRgbTable : <<e[1], e[2], e[3]>> = key
         IN formatHex(<<e[4], e[5], e[6]>>)

getAnalogous(hex) ==
    LET color == D3Lch(hex)
        h == OrZero(color[3])
        l == OrZero(color[1])
        c == OrZero(color[2])
    IN << D3LchHex(l, c, JsRem(h + Deg(30), Deg(360))),
          D3LchHex(l, c, JsRem(h - Deg(30) + Deg(360), Deg(360))) >>

getShades(hex) ==
    LET color == D3Lch(hex)
        l == OrZero(color[1])
        c == OrZero(color[2])
        h == OrZero(color[3])
    IN << D3LchHex((l * 8) \div 10, c, h),
          D3LchHex((l * 6) \div 10, c, h),
          D3LchHex((l * 4) \div 10, c, h) >>

getTones(hex) ==
    LET color == D3Lch(hex)
        l == OrZero(color[1])
        c == OrZero(color[2])
        h == OrZero(color[3])
    IN << D3LchHex(l, (c * 7) \div 10, h),
          D3LchHex(l, (c * 4) \div 10, h),
          D3LchHex(l, (c * 1) \div 10, h) >>

getTriads(hex) ==
    LET color == D3Lch(hex)
        h == OrZero(color[3])
        l == OrZero(color[1])
        c == OrZero(color[2])
    IN << D3LchHex(l, c, JsRem(h + Deg(120), Deg(360))),
          D3LchHex(l, c, JsRem(h + Deg(240), Deg(360))) >>

\* The hue getComplementary hands to d3.lch.
complementHueSame(color) == OrZero(color[3])
complementHue(color) == JsRem(OrZero(color[3]) + Deg(180), Deg(360))

getComplementary(hex) ==
    LET color == D3Lch(hex)
    IN D3LchHex(color[1], color[2], complementHue(color))

\* newL, newC, newH of adjustColor; saturation is in tenths. Math.max and
\* Math.min give NaN for a NaN argument.
adjustedLchHalfTurn(color, b, s, w) ==
    << IF color[1] = NaN THEN NaN
       ELSE Max(0, Min(Deg(100), color[1] + Deg(b))),
       IF color[2] = NaN THEN NaN
       ELSE Max(0, (color[2] * s) \div 10),
       JsRem(OrZero(color[3]) + Deg(w) + Deg(180), Deg(360)) >>
adjustedLch(color, b, s, w) ==
    << IF color[1] = NaN THEN NaN
       ELSE Max(0, Min(Deg(100), color[1] + Deg(b))),
       IF color[2] = NaN THEN NaN
       ELSE Max(0, (color[2] * s) \div 10),
       JsRem(OrZero(color[3]) + Deg(w) + Deg(360), Deg(360)) >>

adjustColor(hex, b, s, w) ==
    LET new == adjustedLch(D3Lch(hex), b, s, w)
    IN D3LchHex(new[1], new[2], new[3])

(***************************************************************************)
(* colorService.getColorFormats. formatRgb and formatHsl are d3's; the     *)
(* HSL numbers are computed exactly on FormatInputs, whose hue, saturation *)
(* and lightness are whole numbers.                                        *)
(***************************************************************************)
\* Template-literal text of a number; Math.round(NaN) prints as NaN.
NumText(x) == IF x = NaN THEN <<"N","a","N">> ELSE NumToString(x, 10)

\* Math.round of a value in thousandths (x >= 0).
RoundThousandths(x) == IF x = NaN THEN NaN ELSE (x + 500) \div 1000

\* color.formatRgb()
formatRgb(c) ==
    <<"r","g","b","(">> \o NumText(c[1]) \o <<",", " ">> \o NumText(c[2])
    \o <<",", " ">> \o NumText(c[3]) \o <<")">>

\* d3.hsl of the channels: <<h, s * 100, l * 100>>, NaN as d3 leaves it.
D3Hsl(c) ==
    LET max == Max(c[1], Max(c[2], c[3]))
        min == Min(c[1], Min(c[2], c[3]))
        d == max - min
        sum == max + min
        h == IF d = 0 THEN NaN
             ELSE IF c[1] = max
             THEN (60 * (c[2] - c[3])) \div d + (IF c[2] < c[3] THEN 360 ELSE 0)
             ELSE IF c[2] = max
             THEN (60 * (c[3] - c[1])) \div d + 120
             ELSE (60 * (c[1] - c[2])) \div d + 240
        s == IF d = 0 THEN (IF 0 < sum /\ sum < 510 THEN 0 ELSE NaN)
             ELSE (100 * d) \div (IF sum < 255 THEN sum ELSE 510 - sum)
    IN <<h, s, (100 * sum) \div 510>>

\* color.formatHsl(): NaN hue and saturation are written as 0.
formatHsl(c) ==
    LET hsl == D3Hsl(c)
    IN <<"h","s","l","(">> \o NumText(OrZero(hsl[1])) \o <<",", " ">>
       \o NumText(OrZero(hsl[2])) \o <<"%", ",", " ">>
       \o NumText(hsl[3]) \o <<"%", ")">>

getColorFormats(colorStr) ==
    LET color == D3Color(colorStr)
        lchVal == D3Lch(colorStr)
    IN IF color = None
       THEN [ hex |-> Black,
              rgb |-> <<"r","g","b","(","0",",","0",",","0",")">>,
              hsl |-> <<"h","s","l","(","0",",","0","%",",","0","%",")">>,
              lch |-> <<"l","c","h","(","0"," ","0"," ","0",")">> ]
       ELSE [ hex |-> formatHex(color),
              rgb |-> formatRgb(color),
              hsl |-> formatHsl(color),
              lch |-> <<"l","c","h","(">> \o NumText(RoundThousandths(lchVal[1]))
                      \o <<" ">> \o NumText(RoundThousandths(lchVal[2]))
                      \o <<" ">> \o NumText(RoundThousandths(OrZero(lchVal[3])))
                      \o <<")">> ]

FormatInputs ==
    { Black, White,
      <<"#","f","f","f">>,
      <<"#","0","0","0","0","f","f">>,
      <<"#","f","f","0","0","0","0">>,
      NotAColor,
      <<"#","1","0","0","0","0","0","0">>,
      <<>> }


(***************************************************************************)
(* imageService.extractPalette: the pixel sampler. An image of             *)
(* img.width x img.height is drawn on a canvas of img.width * scale by     *)
(* img.height * scale; a canvas dimension is an unsigned long, so the      *)
(* product is truncated. The products are exact fractions here, except     *)
(* where the double-precision product falls just below a whole number.     *)
(***************************************************************************)
maxSide == 200

\* Image sides the sampler is run on.
ImageSides == { 1, 2, 3, 100, 150, 199, 200, 201, 289, 300, 301, 398, 400, 1000 }

\* <<n, longer>>: n * (200 / longer) is a whole number, and the product in
\* double precision is below it.
RoundedBelow == { <<199, 398>>, <<289, 289>>, <<398, 398>> }

\* Math.round(n * 200 / longer)
canvasSideRounded(n, longer) ==
    IF longer <= maxSide THEN n
    ELSE (2 * maxSide * n + longer) \div (2 * longer)

\* canvas.width = img.width * scale, with scale = 200 / longer, or 1 when
\* neither side is longer than 200.
canvasSide(n, longer) ==
    IF longer <= maxSide THEN n
    ELSE IF <<n, longer>> \in RoundedBelow THEN (maxSide * n) \div longer - 1
    ELSE (maxSide * n) \div longer

\* img.onload: the canvas size and the number of pixels handed to
\* getDominantColors. getImageData throws for a canvas with a side of 0:
\* the handler ends there and the promise is never settled.
SamplePixels ==
    /\ sOut = <<>>
    /\ LET longer == Max(sW, sH)
           w == canvasSide(sW, longer)
           h == canvasSide(sH, longer)
       IN sOut' = << IF w = 0 \/ h = 0
                    THEN [width |-> w, height |-> h, outcome |-> "threw", pixels |-> 0]
                    ELSE [width |-> w, height |-> h, outcome |-> "resolved",
                          pixels |-> w * h] >>
    /\ UNCHANGED <<sW, sH>>

(***************************************************************************)
(* App: constants of the component.                                        *)
(***************************************************************************)
DefaultPalette ==
    << <<"#","1","4","1","4","1","4">>,
       <<"#","F","2","7","D","2","6">>,
       <<"#","E","4","E","3","E","0">>,
       <<"#","8","E","9","2","9","9">>,
       <<"#","F","F","F","F","F","F">>>>

SuggestedPalettes ==
    << <<<<"#","2","C","3","E","5","0">>,
          <<"#","E","7","4","C","3","C">>,
          <<"#","E","C","F","0","F","1">>,
          <<"#","3","4","9","8","D","B">>,
          <<"#","2","9","8","0","B","9">>>>,
       <<<<"#","1","B","1","B","1","B">>,
          <<"#","F","F","D","7","0","0">>,
          <<"#","F","5","F","5","F","5">>,
          <<"#","C","0","C","0","C","0">>,
          <<"#","8","0","8","0","8","0">>>>,
       <<<<"#","2","D","5","A","2","7">>,
          <<"#","F","1","C","4","0","F">>,
          <<"#","F","F","F","F","F","F">>,
          <<"#","E","6","7","E","2","2">>,
          <<"#","D","3","5","4","0","0">>>> >>

\* c.replace('#', ''): the first '#' of c removed.
RemoveHash(c) ==
    IF \E i \in 1..Len(c) : c[i] = "#"
    THEN LET k == CHOOSE i \in 1..Len(c) :
                      c[i] = "#" /\ \A j \in 1..(i - 1) : c[j] # "#"
         IN SubSeq(c, 1, k - 1) \o SubSeq(c, k + 1, Len(c))
    ELSE c

UrlOfKeepingHash(colors) == Join(colors, ",")

\* updateUrl(colors): the value the colors parameter is replaced with.
UrlOf(colors) == Join([i \in 1..Len(colors) |-> RemoveHash(colors[i])], ",")

\* The URL-sync effect's reading of the colors parameter: the list it
\* installs, or None when it installs nothing.
Restored(colors) ==
    IF colors = None \/ colors = <<>> THEN None
    ELSE LET segs == Split(colors, ",")
             colorList == [i \in 1..Len(segs) |-> normalizeHex(<<"#">> \o segs[i])]
         IN IF Len(colorList) = 5 THEN colorList ELSE None

(***************************************************************************)
(* App: the inputs of a run.                                               *)
(***************************************************************************)
\* The files a user uploads: the MIME type of the File and what reading and
\* decoding it gives. An "unreadable" file makes the FileReader fire its
\* error event; a "corrupt" file makes the Image element fire onerror; an
\* "image" file decodes to an image of width x height, whose sampled pixels
\* are handed to getDominantColors.
ImagePng == <<"i","m","a","g","e","/","p","n","g">>
ImageJpeg == <<"i","m","a","g","e","/","j","p","e","g">>
ImageGif == <<"i","m","a","g","e","/","g","i","f">>
TextPlain == <<"t","e","x","t","/","p","l","a","i","n">>

FileTable ==
    << [type |-> ImagePng, kind |-> "image", width |-> 2, height |-> 1,
        pixels |-> << <<20, 20, 20>>, <<40, 40, 40>> >>],
       [type |-> ImageJpeg, kind |-> "image", width |-> 7, height |-> 1,
        pixels |-> << <<250, 10, 10>>, <<250, 10, 10>>, <<0, 0, 0>>,
                      <<100, 100, 100>>, <<15, 16, 200>>, <<64, 128, 192>>,
                      <<20, 20, 20>> >>],
       [type |-> ImageGif, kind |-> "image", width |-> 3, height |-> 2,
        pixels |-> << <<64, 128, 192>>, <<0, 0, 0>>, <<0, 0, 0>>,
                      <<100, 100, 100>>, <<15, 16, 200>>, <<32, 64, 96>> >>],
       [type |-> TextPlain, kind |-> "corrupt", width |-> 0, height |-> 0,
        pixels |-> <<>>],
       [type |-> ImagePng, kind |-> "image", width |-> 1, height |-> 201,
        pixels |-> <<>>],
       [type |-> ImageJpeg, kind |-> "unreadable", width |-> 0, height |-> 0,
        pixels |-> <<>>] >>
Files == 1..Len(FileTable)

\* Does the canvas extractPalette draws file f on have pixels: both of its
\* sides are at least 1.
HasPixels(f) ==
    LET longer == Max(FileTable[f].width, FileTable[f].height)
    IN /\ canvasSide(FileTable[f].width, longer) > 0
       /\ canvasSide(FileTable[f].height, longer) > 0

\* The three ways a file reaches handleImageUpload.
IngestionPaths == {"paste", "drop", "input"}

\* String.prototype.startsWith
StartsWith(s, prefix) ==
    Len(s) >= Len(prefix) /\ SubSeq(s, 1, Len(prefix)) = prefix

\* Values of the colors parameter the page is opened with.
InitialUrls ==
    { None,
      <<>>,
      <<"1","4","1","4","1","4",",","f","2","7","d","2","6",",","e","4","e","3","e","0",",","8","e","9","2","9","9",",","f","f","f","f","f","f">>,
      <<"F","2","7","D","2","6",",","a","b","c",",","1","4","1","4","1","4",",","8","e","9","2","9","9",",","0","A","F">>,
      <<"z","z","z","z","z","z",",","f","2","7","d","2","6",",","e","4","e","3","e","0",",","8","e","9","2","9","9",",","f","f","f","f","f","f">>,
      <<"1","4","1","4","1","4",",","f","2","7","d","2","6",",","e","4","e","3","e","0",",","8","e","9","2","9","9">>,
      <<"1","4","1","4","1","4",",","f","2","7","d","2","6",",","e","4","e","3","e","0",",","8","e","9","2","9","9",",","f","f","f","f","f","f",",","1","2","3","4","5","6">>,
      <<"1","4","1","4","1","4",",","f","2","7","d","2","6",",","1","4","1","4","1","4",",","8","e","9","2","9","9",",","f","f","f","f","f","f">> }

\* Slider positions tried (each slider also rests at its initial value).
BrightnessValues == {0, 50}
SaturationValues == {10, 0}
WarmthValues == {0, -180}

\* adjustColor(hex, brightness, saturation, warmth) as far as the palette
\* state needs it: the colours it may return. An unparseable hex makes every
\* LCH channel NaN, which formatHex writes as black; the identity adjustment
\* gives the colour back in formatHex's form; d3's LCH conversion of any
\* other adjustment is not computed: the result is one of a sample of
\* formatHex outputs.
AdjustedSample == { <<"#","3","a","6","e","a","5">>, Black }

adjustedColors(hex, b, s, w) ==
    IF D3Color(hex) = None THEN { Black }
    ELSE IF b = 0 /\ s = 10 /\ w = 0 THEN { formatHex(D3Color(hex)) }
    ELSE AdjustedSample

(***************************************************************************)
(* One call of a colorService function.                                    *)
(***************************************************************************)
CallNormalizeHex ==
    /\ tFn = NoCall
    /\ \E hex \in ColorInputs :
          /\ tArgs' = <<hex>>
          /\ tOut' = normalizeHex(hex)
    /\ tFn' = "normalizeHex"

CallGetColorFormats ==
    /\ tFn = NoCall
    /\ \E colorStr \in FormatInputs :
          /\ tArgs' = <<colorStr>>
          /\ tOut' = getColorFormats(colorStr)
    /\ tFn' = "getColorFormats"

CallGetAnalogousHex ==
    /\ tFn = NoCall
    /\ \E hex \in ColorInputs :
          /\ tArgs' = <<hex>>
          /\ tOut' = getAnalogous(hex)
    /\ tFn' = "getAnalogous"

CallGetShades ==
    /\ tFn = NoCall
    /\ \E hex \in ColorInputs :
          /\ tArgs' = <<hex>>
          /\ tOut' = getShades(hex)
    /\ tFn' = "getShades"

CallGetTones ==
    /\ tFn = NoCall
    /\ \E hex \in ColorInputs :
          /\ tArgs' = <<hex>>
          /\ tOut' = getTones(hex)
    /\ tFn' = "getTones"

CallGetTriadsHex ==
    /\ tFn = NoCall
    /\ \E hex \in ColorInputs :
          /\ tArgs' = <<hex>>
          /\ tOut' = getTriads(hex)
    /\ tFn' = "getTriads"

CallGetComplementaryHex ==
    /\ tFn = NoCall
    /\ \E hex \in ColorInputs :
          /\ tArgs' = <<hex>>
          /\ tOut' = getComplementary(hex)
    /\ tFn' = "getComplementary"

\* getComplementary applied to the colour the first call returned.
CallGetComplementaryAgain ==
    /\ tFn = "getComplementary"
    /\ tOut' = getComplementary(tOut)
    /\ tFn' = "getComplementary twice"
    /\ UNCHANGED tArgs

CallAdjustColorHex ==
    /\ tFn = NoCall
    /\ \E hex \in ColorInputs, b \in BrightnessValues,
          s \in SaturationValues, w \in WarmthValues :
          /\ tArgs' = <<hex, b, s, w>>
          /\ tOut' = adjustColor(hex, b, s, w)
    /\ tFn' = "adjustColor"

(***************************************************************************)
(* App: initial state and operations.                                      *)
(***************************************************************************)
InitAppWith(colors) ==
    /\ mounted = FALSE
    /\ url = colors
    /\ image = <<>>
    /\ palette = DefaultPalette
    /\ selectedColor = DefaultPalette[1]
    /\ isProcessing = FALSE
    /\ brightness = 0
    /\ saturation = 10
    /\ warmth = 0
    /\ uploads = <<>>
    /\ ops = 0

\* useEffect(() => {...}, []): runs once, after the first render.
Mount ==
    /\ ~mounted
    /\ mounted' = TRUE
    /\ LET colorList == Restored(url)
       IN IF colorList # None
          THEN /\ palette' = colorList
               /\ selectedColor' = colorList[1]
          ELSE UNCHANGED <<palette, selectedColor>>
    /\ UNCHANGED <<url, image, isProcessing, brightness, saturation, warmth,
                   uploads, ops>>

UserMay == mounted /\ ops < MaxOps

\* ColorCard onSelect={setSelectedColor}: a click on palette card i.
SelectColor(i) ==
    /\ UserMay
    /\ i \in 1..Len(palette)
    /\ selectedColor' = palette[i]
    /\ ops' = ops + 1
    /\ UNCHANGED <<mounted, url, image, palette, isProcessing, brightness,
                   saturation, warmth, uploads>>

SetBrightness(v) ==
    /\ UserMay
    /\ v # brightness
    /\ brightness' = v
    /\ ops' = ops + 1
    /\ UNCHANGED <<mounted, url, image, palette, selectedColor, isProcessing,
                   saturation, warmth, uploads>>

SetSaturation(v) ==
    /\ UserMay
    /\ v # saturation
    /\ saturation' = v
    /\ ops' = ops + 1
    /\ UNCHANGED <<mounted, url, image, palette, selectedColor, isProcessing,
                   brightness, warmth, uploads>>

SetWarmth(v) ==
    /\ UserMay
    /\ v # warmth
    /\ warmth' = v
    /\ ops' = ops + 1
    /\ UNCHANGED <<mounted, url, image, palette, selectedColor, isProcessing,
                   brightness, saturation, uploads>>

updatePaletteColorKeepsSelection(newColor) ==
    LET newPalette == [i \in 1..Len(palette) |->
                          IF palette[i] = selectedColor THEN newColor
                          ELSE palette[i]]
    IN /\ palette' = newPalette
       /\ selectedColor' = selectedColor
       /\ url' = UrlOf(newPalette)

\* updatePaletteColor(newColor).
updatePaletteColor(newColor) ==
    LET newPalette == [i \in 1..Len(palette) |->
                          IF palette[i] = selectedColor THEN newColor
                          ELSE palette[i]]
    IN /\ palette' = newPalette
       /\ selectedColor' = newColor
       /\ url' = UrlOf(newPalette)

\* "Aplicar Ajustes" / "Actualizar en Paleta":
\* updatePaletteColor(adjustedColor).
ApplyAdjustments ==
    /\ UserMay
    /\ \E adjustedColor \in adjustedColors(selectedColor, brightness, saturation, warmth) :
          updatePaletteColor(adjustedColor)
    /\ ops' = ops + 1
    /\ UNCHANGED <<mounted, image, isProcessing, brightness, saturation,
                   warmth, uploads>>

\* A click on suggested palette i.
PickSuggested(i) ==
    /\ UserMay
    /\ LET p == SuggestedPalettes[i]
       IN /\ palette' = p
          /\ selectedColor' = p[1]
          /\ url' = UrlOf(p)
    /\ ops' = ops + 1
    /\ UNCHANGED <<mounted, image, isProcessing, brightness, saturation,
                   warmth, uploads>>

\* handleImageUpload with a file f arriving by the path via: the part that
\* runs before the reader has read it. A paste takes the first clipboard
\* item whose type starts with 'image'; a drop and the file input take
\* files[0] as it is.
StartUpload(f, via) ==
    /\ UserMay
    /\ via = "paste" => StartsWith(FileTable[f].type, <<"i","m","a","g","e">>)
    /\ isProcessing' = TRUE
    /\ uploads' = Append(uploads, [file |-> f, stage |-> "reading"])
    /\ ops' = ops + 1
    /\ UNCHANGED <<mounted, url, image, palette, selectedColor, brightness,
                   saturation, warmth>>

\* reader.onload up to the await: setImage(url), extractPalette(url) pending.
ReaderLoad(u) ==
    /\ u \in 1..Len(uploads)
    /\ uploads[u].stage = "reading"
    /\ FileTable[uploads[u].file].kind # "unreadable"
    /\ image' = <<uploads[u].file>>
    /\ uploads' = [uploads EXCEPT ![u].stage = "decoding"]
    /\ UNCHANGED <<mounted, url, palette, selectedColor, isProcessing,
                   brightness, saturation, warmth, ops>>

\* extractPalette(url) with the default count.
extractPalette(f) == getDominantColors(FileTable[f].pixels, 5)

ExtractDoneKeepsAdjustments(u) ==
    /\ u \in 1..Len(uploads)
    /\ uploads[u].stage = "decoding"
    /\ FileTable[uploads[u].file].kind = "image"
    /\ HasPixels(uploads[u].file)
    /\ LET colors == extractPalette(uploads[u].file)
       IN /\ palette' = colors
          /\ selectedColor' = colors[1]
          /\ url' = UrlOf(colors)
    /\ isProcessing' = FALSE
    /\ uploads' = [uploads EXCEPT ![u].stage = "done"]
    /\ UNCHANGED <<mounted, image, ops, brightness, saturation, warmth>>

\* img.onload resolves extractPalette; the rest of the try block and the
\* finally block run.
ExtractDone(u) ==
    /\ u \in 1..Len(uploads)
    /\ uploads[u].stage = "decoding"
    /\ FileTable[uploads[u].file].kind = "image"
    /\ HasPixels(uploads[u].file)
    /\ LET colors == extractPalette(uploads[u].file)
       IN /\ palette' = colors
          /\ selectedColor' = colors[1]
          /\ url' = UrlOf(colors)
    /\ brightness' = 0
    /\ saturation' = 10
    /\ warmth' = 0
    /\ isProcessing' = FALSE
    /\ uploads' = [uploads EXCEPT ![u].stage = "done"]
    /\ UNCHANGED <<mounted, image, ops>>

\* img.onerror rejects extractPalette; the catch block (a toast) and the
\* finally block run.
ExtractFailInstallsDefault(u) ==
    /\ u \in 1..Len(uploads)
    /\ uploads[u].stage = "decoding"
    /\ FileTable[uploads[u].file].kind = "corrupt"
    /\ palette' = DefaultPalette
    /\ selectedColor' = DefaultPalette[1]
    /\ isProcessing' = FALSE
    /\ uploads' = [uploads EXCEPT ![u].stage = "failed"]
    /\ UNCHANGED <<mounted, url, image, brightness, saturation, warmth, ops>>
ExtractFail(u) ==
    /\ u \in 1..Len(uploads)
    /\ uploads[u].stage = "decoding"
    /\ FileTable[uploads[u].file].kind = "corrupt"
    /\ isProcessing' = FALSE
    /\ uploads' = [uploads EXCEPT ![u].stage = "failed"]
    /\ UNCHANGED <<mounted, url, image, palette, selectedColor, brightness,
                   saturation, warmth, ops>>

\* The FileReader fires its error event: reader.onerror is not set, so no
\* code of the App runs.
ReaderError(u) ==
    /\ u \in 1..Len(uploads)
    /\ uploads[u].stage = "reading"
    /\ FileTable[uploads[u].file].kind = "unreadable"
    /\ uploads' = [uploads EXCEPT ![u].stage = "unread"]
    /\ UNCHANGED <<mounted, url, image, palette, selectedColor, isProcessing,
                   brightness, saturation, warmth, ops>>

\* img.onload with a canvas that has a side of 0: getImageData throws, the
\* handler ends, and the promise of extractPalette is neither resolved nor
\* rejected: the await in reader.onload never returns.
ExtractThrows(u) ==
    /\ u \in 1..Len(uploads)
    /\ uploads[u].stage = "decoding"
    /\ FileTable[uploads[u].file].kind = "image"
    /\ ~HasPixels(uploads[u].file)
    /\ uploads' = [uploads EXCEPT ![u].stage = "threw"]
    /\ UNCHANGED <<mounted, url, image, palette, selectedColor, isProcessing,
                   brightness, saturation, warmth, ops>>

Init ==
    /\ \E colors \in InitialUrls : InitAppWith(colors)
    /\ qPixels = <<>> /\ qCount = 0 /\ qResult = <<>> /\ qDone = FALSE
    /\ hBase = 0 /\ hWarmth = 0 /\ hOut = <<>> /\ hDone = NoCall
    /\ tFn = NoCall /\ tArgs = <<>> /\ tOut = <<>>
    /\ sW = 0 /\ sH = 0 /\ sOut = <<>>

Next ==
    \/ Mount /\ UNCHANGED <<quantVars, hueVars, transformVars, samplerVars>>
    \/ \E i \in 1..5 : SelectColor(i) /\ UNCHANGED <<quantVars, hueVars, transformVars, samplerVars>>
    \/ \E v \in BrightnessValues : SetBrightness(v) /\ UNCHANGED <<quantVars, hueVars, transformVars, samplerVars>>
    \/ \E v \in SaturationValues : SetSaturation(v) /\ UNCHANGED <<quantVars, hueVars, transformVars, samplerVars>>
    \/ \E v \in WarmthValues : SetWarmth(v) /\ UNCHANGED <<quantVars, hueVars, transformVars, samplerVars>>
    \/ ApplyAdjustments /\ UNCHANGED <<quantVars, hueVars, transformVars, samplerVars>>
    \/ \E i \in 1..Len(SuggestedPalettes) :
          PickSuggested(i) /\ UNCHANGED <<quantVars, hueVars, transformVars, samplerVars>>
    \/ \E f \in Files, via \in IngestionPaths :
          StartUpload(f, via) /\ UNCHANGED <<quantVars, hueVars, transformVars, samplerVars>>
    \/ \E u \in 1..Len(uploads) : ReaderLoad(u) /\ UNCHANGED <<quantVars, hueVars, transformVars, samplerVars>>
    \/ \E u \in 1..Len(uploads) : ExtractDone(u) /\ UNCHANGED <<quantVars, hueVars, transformVars, samplerVars>>
    \/ \E u \in 1..Len(uploads) : ExtractFail(u) /\ UNCHANGED <<quantVars, hueVars, transformVars, samplerVars>>
    \/ \E u \in 1..Len(uploads) : ReaderError(u) /\ UNCHANGED <<quantVars, hueVars, transformVars, samplerVars>>
    \/ \E u \in 1..Len(uploads) : ExtractThrows(u) /\ UNCHANGED <<quantVars, hueVars, transformVars, samplerVars>>

\* The App from page load on.
Spec == Init /\ [][Next]_vars

\* The stage an upload is in once the event it waits for has been delivered:
\* the FileReader fires load or error, the Image fires load or error.
StageAfter(u) ==
    LET f == uploads[u].file
    IN IF uploads[u].stage = "reading"
       THEN IF FileTable[f].kind = "unreadable" THEN "unread" ELSE "decoding"
       ELSE IF FileTable[f].kind = "corrupt" THEN "failed"
            ELSE IF HasPixels(f) THEN "done" ELSE "threw"

\* A step of the browser's event loop: the mount effect runs, or the event
\* an upload waits for is delivered. Among the steps of Next these are the
\* steps of Mount, ReaderLoad, ReaderError, ExtractDone, ExtractFail and
\* ExtractThrows; what the handler does to the rest of the state is left to
\* Next.
Delivered ==
    \/ ~mounted /\ mounted' = TRUE /\ UNCHANGED uploads
    \/ \E u \in 1..Len(uploads) :
          /\ uploads[u].stage \in {"reading", "decoding"}
          /\ uploads' = [uploads EXCEPT ![u].stage = StageAfter(u)]
          /\ UNCHANGED mounted

\* The App with the browser's event loop: every event that is due is
\* delivered. The user's operations are not forced.
SpecLive == Init /\ [][Next]_vars /\ WF_<<mounted, uploads>>(Delivered)

InitQuant ==
    /\ InitAppWith(None)
    /\ qPixels \in SeqsUpTo(PixelSet, MaxPixels)
    /\ qCount \in (-MaxCount)..MaxCount
    /\ qResult = <<>>
    /\ qDone = FALSE
    /\ hBase = 0 /\ hWarmth = 0 /\ hOut = <<>> /\ hDone = NoCall
    /\ tFn = NoCall /\ tArgs = <<>> /\ tOut = <<>>
    /\ sW = 0 /\ sH = 0 /\ sOut = <<>>

NextQuant == CallGetDominantColors /\ UNCHANGED <<appVars, hueVars, transformVars, samplerVars>>

\* One call of getDominantColors on every bounded input.
SpecQuant == InitQuant /\ [][NextQuant]_vars

InitHue ==
    /\ InitAppWith(None)
    /\ qPixels = <<>> /\ qCount = 0 /\ qResult = <<>> /\ qDone = FALSE
    /\ hBase \in Hues
    /\ hWarmth = 0
    /\ hOut = <<>>
    /\ hDone = NoCall
    /\ tFn = NoCall /\ tArgs = <<>> /\ tOut = <<>>
    /\ sW = 0 /\ sH = 0 /\ sOut = <<>>

NextHue ==
    \/ CallAdjustColor /\ UNCHANGED <<appVars, quantVars, transformVars, samplerVars>>
    \/ CallGetAnalogous /\ UNCHANGED <<appVars, quantVars, transformVars, samplerVars>>
    \/ CallGetTriads /\ UNCHANGED <<appVars, quantVars, transformVars, samplerVars>>
    \/ CallGetComplementary /\ UNCHANGED <<appVars, quantVars, transformVars, samplerVars>>

\* One call of a hue-shifting transform on every base hue.
SpecHue == InitHue /\ [][NextHue]_vars

InitTransform ==
    /\ InitAppWith(None)
    /\ qPixels = <<>> /\ qCount = 0 /\ qResult = <<>> /\ qDone = FALSE
    /\ hBase = 0 /\ hWarmth = 0 /\ hOut = <<>> /\ hDone = NoCall
    /\ tFn = NoCall /\ tArgs = <<>> /\ tOut = <<>>
    /\ sW = 0 /\ sH = 0 /\ sOut = <<>>

NextTransform ==
    \/ CallCheckContrast /\ UNCHANGED <<appVars, quantVars, hueVars, samplerVars>>
    \/ CallNormalizeHex /\ UNCHANGED <<appVars, quantVars, hueVars, samplerVars>>
    \/ CallGetColorFormats /\ UNCHANGED <<appVars, quantVars, hueVars, samplerVars>>
    \/ CallGetAnalogousHex /\ UNCHANGED <<appVars, quantVars, hueVars, samplerVars>>
    \/ CallGetShades /\ UNCHANGED <<appVars, quantVars, hueVars, samplerVars>>
    \/ CallGetTones /\ UNCHANGED <<appVars, quantVars, hueVars, samplerVars>>
    \/ CallGetTriadsHex /\ UNCHANGED <<appVars, quantVars, hueVars, samplerVars>>
    \/ CallGetComplementaryHex /\ UNCHANGED <<appVars, quantVars, hueVars, samplerVars>>
    \/ CallGetComplementaryAgain /\ UNCHANGED <<appVars, quantVars, hueVars, samplerVars>>
    \/ CallAdjustColorHex /\ UNCHANGED <<appVars, quantVars, hueVars, samplerVars>>

\* One call of a colorService function on every sample input.
SpecTransform == InitTransform /\ [][NextTransform]_vars

InitSampler ==
    /\ InitAppWith(None)
    /\ qPixels = <<>> /\ qCount = 0 /\ qResult = <<>> /\ qDone = FALSE
    /\ hBase = 0 /\ hWarmth = 0 /\ hOut = <<>> /\ hDone = NoCall
    /\ tFn = NoCall /\ tArgs = <<>> /\ tOut = <<>>
    /\ sW \in ImageSides /\ sH \in ImageSides /\ sOut = <<>>

NextSampler == SamplePixels /\ UNCHANGED <<appVars, quantVars, hueVars, transformVars>>

\* One run of the sampler on every image size.
SpecSampler == InitSampler /\ [][NextSampler]_vars

(***************************************************************************)
(* Claims about the App.                                                   *)
(***************************************************************************)
\* C1: in every reachable state the palette holds exactly 5 colours, also
\* after extracting an image whose pixels fall into fewer than 5 buckets.
C1_PaletteHasFive == Len(palette) = 5

\* A segment of the colors parameter that is a well-formed hex colour: 3 or
\* 6 hex digits, in either case.
IsHexSegment(seg) ==
    /\ Len(seg) \in {3, 6}
    /\ \A i \in 1..Len(seg) : IsHexChar(LowerChar(seg[i]))

IsWellFormedList(colors) ==
    /\ colors # None
    /\ LET segs == Split(colors, ",")
       IN /\ Len(segs) = 5
          /\ \A i \in 1..5 : IsHexSegment(segs[i])

\* C6: on load, a colors parameter that does not have exactly 5 segments,
\* each a well-formed hex colour, is rejected: the palette and the selected
\* colour stay at the built-in defaults.
C6_MalformedListRejected ==
    [][ (~mounted /\ mounted' /\ ~IsWellFormedList(url)) =>
            /\ palette' = DefaultPalette
            /\ selectedColor' = DefaultPalette[1] ]_vars

\* C7: encoding any 5-colour palette the App holds with updateUrl and
\* decoding that string with the load-time restore logic yields the same 5
\* colour strings in the same order.
C7_SharedLinkRoundTrip ==
    Len(palette) = 5 => Restored(UrlOf(palette)) = palette

\* The state the failure handling must leave alone.
paletteState == <<palette, selectedColor, brightness, saturation, warmth, url>>

Completes(u) == uploads[u].stage # "done" /\ uploads'[u].stage = "done"
Fails(u) == uploads[u].stage # "failed" /\ uploads'[u].stage = "failed"

\* C8: an upload whose image cannot be decoded installs no palette: the step
\* in which its extraction is rejected, like the steps that started it and
\* read its file, leaves the palette, the selected colour, the three
\* adjustments and the colors parameter as they were.
C8_FailedUploadKeepsPalette ==
    [][ /\ (\E u \in 1..Len(uploads) : Fails(u)) => paletteState' = paletteState
        /\ (uploads' # uploads /\ ~(\E u \in 1..Len(uploads) : Completes(u)))
              => paletteState' = paletteState ]_vars

C8_Witness ==
    /\ \E u \in 1..Len(uploads) : uploads[u].stage = "failed"
    /\ palette # DefaultPalette
    /\ ~isProcessing

\* C9: when upload a is started before upload b and both extractions
\* succeed, then once the second of the two has completed the palette, the
\* selected colour and the colors parameter are those of b, whichever of the
\* two completes last.
C9_LaterUploadWins ==
    [][ \A a, b \in 1..Len(uploads) :
          ( /\ a < b
            /\ Completes(a) \/ Completes(b)
            /\ uploads'[a].stage = "done"
            /\ uploads'[b].stage = "done" ) =>
              LET colors == extractPalette(uploads[b].file)
              IN /\ palette' = colors
                 /\ selectedColor' = colors[1]
                 /\ url' = UrlOf(colors) ]_vars

(***************************************************************************)
(* Claims about the hue arithmetic.                                        *)
(***************************************************************************)
\* The sum each call wraps, before wrapping.
UnwrappedHues ==
    CASE hDone = "adjustColor" -> <<hBase + hWarmth>>
      [] hDone = "getAnalogous" -> <<hBase + 30, hBase - 30>>
      [] hDone = "getTriads" -> <<hBase + 120, hBase + 240>>
      [] hDone = "getComplementary" -> <<hBase + 180>>
      [] OTHER -> <<>>

InHueRange(h) == h >= 0 /\ h < 360
Congruent(a, b) == (a - b) % 360 = 0

RatioHundredths(chars) ==
    IF chars = <<"N","a","N">> THEN NaN
    ELSE ParseDec(SelectSeq(chars, LAMBDA ch : ch # "."))

IsWhite(s) == D3Color(s) = <<255, 255, 255>>
IsBlack(s) == D3Color(s) = <<0, 0, 0>>

\* C11: the ratio checkContrast returns is a number, and each flag is true
\* exactly when that returned ratio, as rounded to two decimals, reaches the
\* flag's threshold: aa at 4.5, aaa at 7, aaLarge at 3.
C11_FlagsAgreeWithReturnedRatio ==
    tFn = "checkContrast" =>
        /\ tOut.ratio.type = "number"
        /\ LET r == RatioHundredths(tOut.ratio.value)
           IN /\ tOut.aa <=> (r # NaN /\ r >= 450)
              /\ tOut.aaa <=> (r # NaN /\ r >= 700)
              /\ tOut.aaLarge <=> (r # NaN /\ r >= 300)

\* C12: white against black, in either order, gives the ratio 21.00 with
\* aa, aaa and aaLarge true; white against white gives 1.00 with all three
\* false.
C12_WhiteBlackExtremes ==
    tFn = "checkContrast" =>
        /\ ( \/ IsWhite(tArgs[1]) /\ IsBlack(tArgs[2])
             \/ IsBlack(tArgs[1]) /\ IsWhite(tArgs[2]) )
           => /\ tOut.ratio.value = <<"2","1",".","0","0">>
              /\ tOut.aa /\ tOut.aaa /\ tOut.aaLarge
        /\ (IsWhite(tArgs[1]) /\ IsWhite(tArgs[2]))
           => /\ tOut.ratio.value = <<"1",".","0","0">>
              /\ ~tOut.aa /\ ~tOut.aaa /\ ~tOut.aaLarge

C12_Witness ==
    /\ tFn = "checkContrast"
    /\ tArgs = <<Black, White>>

IsUnparseable(s) == D3Color(s) = None
AllBlack(colors) == \A i \in 1..Len(colors) : colors[i] = Black
IsDigitChar(ch) == \E i \in 1..10 : HexDigits[i] = ch
OnlyZeros(text) == \A i \in 1..Len(text) : IsDigitChar(text[i]) => text[i] = "0"
AsBlack(s) == IF IsUnparseable(s) THEN Black ELSE s

\* C13: called on a string that is no colour, normalizeHex returns '#000000',
\* getColorFormats returns formats that all denote black, every harmony,
\* shade, tone and adjustment function returns only '#000000', and
\* checkContrast returns what it returns with '#000000' in that argument's
\* place.
C13_UnparseableIsBlack ==
    /\ (tFn = "normalizeHex" /\ IsUnparseable(tArgs[1])) => tOut = Black
    /\ (tFn = "getColorFormats" /\ IsUnparseable(tArgs[1])) =>
           /\ tOut.hex = Black
           /\ OnlyZeros(tOut.rgb) /\ OnlyZeros(tOut.hsl) /\ OnlyZeros(tOut.lch)
    /\ (tFn \in {"getAnalogous", "getTriads", "getShades", "getTones"}
          /\ IsUnparseable(tArgs[1])) => AllBlack(tOut)
    /\ (tFn \in {"getComplementary", "getComplementary twice", "adjustColor"}
          /\ IsUnparseable(tArgs[1])) => tOut = Black
    /\ (tFn = "checkContrast"
          /\ (IsUnparseable(tArgs[1]) \/ IsUnparseable(tArgs[2]))) =>
           tOut = checkContrast(AsBlack(tArgs[1]), AsBlack(tArgs[2]))

\* The LCH hue d3 reads from a colour string.
HueOf(hex) == D3Lch(hex)[3]
IsAchromatic(hex) ==
    LET rgb == D3Color(hex)
    IN rgb # None /\ rgb[1] = rgb[2] /\ rgb[2] = rgb[3]

\* The hue half a turn from h, in [0, 360), in thousandths of a degree.
HalfTurnFrom(h) == (OrZero(h) + Deg(180)) % Deg(360)

\* C14: for every colour c, the LCH hue of
\* getComplementary(getComplementary(c)) equals the LCH hue of c.
C14_ComplementTwiceSameHue ==
    tFn = "getComplementary twice" => HueOf(tOut) = HueOf(tArgs[1])

\* C14, amended: each application of getComplementary hands d3 the lightness
\* and chroma it read from its argument and the hue half a turn from the one
\* it read (0 for a NaN hue), so two applications shift the hue handed on
\* by a full turn; the colour that comes back is the original one when the
\* original is achromatic (black, white, a grey).
C14_ComplementIsHalfTurn ==
    /\ tFn = "getComplementary" =>
          LET color == D3Lch(tArgs[1])
          IN /\ tOut = D3LchHex(color[1], color[2], HalfTurnFrom(color[3]))
             /\ HalfTurnFrom(HalfTurnFrom(color[3])) = OrZero(color[3])
    /\ tFn = "getComplementary twice" =>
          LET first == D3Lch(tArgs[1])
              middle == D3Lch(D3LchHex(first[1], first[2], HalfTurnFrom(first[3])))
          IN /\ tOut = D3LchHex(middle[1], middle[2], HalfTurnFrom(middle[3]))
             /\ IsAchromatic(tArgs[1]) => tOut = normalizeHex(tArgs[1])

C14_Witness ==
    /\ tFn = "getComplementary twice"
    /\ tArgs = << <<"#","0","0","0","0","f","f">> >>
    /\ tOut # Black

\* C15: for every valid colour c, adjustColor(c, 0, 1, 0) computes the
\* lightness, chroma and hue of c (hue 0 where c has none) and returns c, in
\* the six-digit lower-case form formatHex writes.
C15_IdentityAdjustment ==
    (tFn = "adjustColor" /\ ~IsUnparseable(tArgs[1])
       /\ tArgs[2] = 0 /\ tArgs[3] = 10 /\ tArgs[4] = 0) =>
        LET color == D3Lch(tArgs[1])
            new == adjustedLch(color, tArgs[2], tArgs[3], tArgs[4])
        IN /\ new[1] = color[1] /\ 0 <= new[1] /\ new[1] <= Deg(100)
           /\ new[2] = color[2]
           /\ new[3] = OrZero(color[3]) /\ 0 <= new[3] /\ new[3] < Deg(360)
           /\ tOut = normalizeHex(tArgs[1])

C15_Witness ==
    /\ tFn = "adjustColor"
    /\ tArgs = << <<"#","3","a","6","e","a","5">>, 0, 10, 0 >>

(***************************************************************************)
(* Claims about the pixel sampler.                                         *)
(***************************************************************************)
\* C16: the sampled buffer of a W x H image is round(W * scale) by
\* round(H * scale) with scale = min(200/W, 200/H, 1); no side exceeds 200
\* or the image's side, an image within 200 x 200 keeps its size, and the
\* quantizer receives width * height pixels.
C16_RoundedDimensions ==
    sOut # <<>> =>
        LET buffer == sOut[1]
            longer == Max(sW, sH)
        IN /\ buffer.width = canvasSideRounded(sW, longer)
           /\ buffer.height = canvasSideRounded(sH, longer)
           /\ buffer.width <= maxSide /\ buffer.height <= maxSide
           /\ buffer.width <= sW /\ buffer.height <= sH
           /\ (sW <= maxSide /\ sH <= maxSide) =>
                 (buffer.width = sW /\ buffer.height = sH)
           /\ buffer.outcome = "resolved"
           /\ buffer.pixels = buffer.width * buffer.height

(***************************************************************************)
(* Claims about uploads and the shareable URL.                             *)
(***************************************************************************)
AcceptedTypes ==
    { ImageJpeg, ImagePng, <<"i","m","a","g","e","/","w","e","b","p">> }

\* C17: on every ingestion path, a file whose type is not JPEG, PNG or WebP
\* never starts an extraction: no step takes up such a file, sets
\* isProcessing for it or goes on to change the image, palette or URL.
C17_StrictMimeValidation ==
    [][ \A u \in 1..Len(uploads') :
          u > Len(uploads) => FileTable[uploads'[u].file].type \in AcceptedTypes ]_vars

\* The palette's colours with every '#' removed, comma-joined in order.
RECURSIVE EncodePalette(_)
EncodePalette(colors) ==
    IF Len(colors) = 0 THEN <<>>
    ELSE LET first == SelectSeq(colors[1], LAMBDA ch : ch # "#")
         IN IF Len(colors) = 1 THEN first
            ELSE first \o <<",">> \o EncodePalette(Tail(colors))

\* C18: every step of the mounted App that changes the palette or the
\* colors parameter (a successful extraction, applying an adjustment,
\* picking a suggested palette) leaves the parameter equal to the encoding
\* of the new palette, and once the two agree every later step keeps them
\* in agreement.
C18_UrlHoldsPalette ==
    [][ mounted =>
          /\ (palette' # palette \/ url' # url) => url' = EncodePalette(palette')
          /\ url = EncodePalette(palette) => url' = EncodePalette(palette') ]_vars

C18_Witness ==
    /\ mounted
    /\ \E u \in 1..Len(uploads) :
          /\ uploads[u].stage = "done"
          /\ uploads[u].file = 2
          /\ palette = extractPalette(2)
    /\ url = EncodePalette(palette)
    /\ Len(url) > 0

\* C20: a step that completes an extraction installs the extracted palette,
\* selects its first colour and resets brightness to 0, saturation to 1 and
\* warmth to 0, so that the adjusted preview is the identity adjustment of
\* the new palette's first colour.
C20_ExtractionResetsAdjustments ==
    [][ \A u \in 1..Len(uploads) :
          Completes(u) =>
            /\ palette' = getDominantColors(FileTable[uploads[u].file].pixels, 5)
            /\ selectedColor' = palette'[1]
            /\ brightness' = 0 /\ saturation' = 10 /\ warmth' = 0
            /\ adjustedColors(selectedColor', brightness', saturation', warmth')
                 = adjustedColors(palette'[1], 0, 10, 0) ]_vars

C20_Witness ==
    /\ \E u \in 1..Len(uploads) :
          /\ uploads[u].stage = "done"
          /\ palette = getDominantColors(FileTable[uploads[u].file].pixels, 5)
    /\ Len(uploads) = 1
    /\ ops = MaxOps
    /\ selectedColor = palette[1]
    /\ saturation = 10

(***************************************************************************)
(* Claims about the quantizer's tie-break.                                 *)
(***************************************************************************)
\* The index of the first pixel of the sequence that falls in bucket k.
FirstSeen(pixels, k) ==
    CHOOSE i \in 1..Len(pixels) :
        /\ BucketOf(pixels[i]) = k
        /\ \A j \in 1..(i - 1) : BucketOf(pixels[j]) # k

\* C19: the result is a function of the pixel sequence and the count, and
\* of two equally populated buckets the one whose first pixel comes earlier
\* in the sequence comes first: in the result, and in being kept when the
\* count cuts the list.
C19_TiesByFirstSeen ==
    qDone =>
        /\ qResult = getDominantColors(qPixels, qCount)
        /\ \A i, j \in 1..Len(qResult) :
              i < j =>
                \A ki \in BucketsShown(qPixels, qResult[i]),
                   kj \in BucketsShown(qPixels, qResult[j]) :
                     Population(qPixels, ki) = Population(qPixels, kj)
                        => FirstSeen(qPixels, ki) < FirstSeen(qPixels, kj)
        /\ \A k \in BucketSet(qPixels) :
              (\A i \in 1..Len(qResult) : BucketHex(k) # qResult[i]) =>
                \A i \in 1..Len(qResult) :
                   \A ki \in BucketsShown(qPixels, qResult[i]) :
                      Population(qPixels, k) = Population(qPixels, ki)
                         => FirstSeen(qPixels, ki) < FirstSeen(qPixels, k)

C19_Witness ==
    /\ qDone
    /\ Len(qResult) = 2
    /\ Cardinality(BucketSet(qPixels)) = 3
    /\ \A k1, k2 \in BucketSet(qPixels) :
          Population(qPixels, k1) = Population(qPixels, k2)

(***************************************************************************)
(* Claims about the selection, the processing flag and                     *)
(* updatePaletteColor.                                                     *)
(***************************************************************************)
\* C21: in every reachable state of the App the selected colour is a
\* colour string and at least one entry of the palette equals it.
C21_SelectedInPalette ==
    /\ Len(selectedColor) > 0
    /\ \E i \in 1..Len(palette) : palette[i] = selectedColor

C21_Witness ==
    /\ mounted
    /\ ops = MaxOps
    /\ palette # DefaultPalette
    /\ selectedColor # palette[1]
    /\ \E i \in 2..Len(palette) : palette[i] = selectedColor

\* C22: whenever an upload has set isProcessing to true, isProcessing is
\* false again at some later time, whatever the outcome of the file read and
\* of the image decode; the flag never stays true for ever.
C22_ProcessingEnds == isProcessing ~> ~isProcessing

\* The palette positions that hold the selected colour string.
SelectedPositions == {i \in 1..Len(palette) : palette[i] = selectedColor}

\* C23: updatePaletteColor(newColor) changes only the selected entry: the
\* palette keeps its length and order, one position that held the selected
\* colour holds newColor, every other position keeps its colour, also when
\* it holds the same colour string as the selected one, and the selected
\* colour is newColor afterwards.
C23_OnlySelectedEntryChanges ==
    [][ApplyAdjustments =>
          /\ selectedColor' \in adjustedColors(selectedColor, brightness, saturation, warmth)
          /\ Len(palette') = Len(palette)
          /\ \E i \in SelectedPositions :
                palette' = [palette EXCEPT ![i] = selectedColor']]_vars

\* The same property for palettes in which no other position holds the
\* selected colour string.
C23_DistinctColours ==
    [][ApplyAdjustments /\ Cardinality(SelectedPositions) = 1 =>
          /\ selectedColor' \in adjustedColors(selectedColor, brightness, saturation, warmth)
          /\ Len(palette') = Len(palette)
          /\ \E i \in SelectedPositions :
                palette' = [palette EXCEPT ![i] = selectedColor']]_vars

====
